---- MODULE Spec2Model ----
(***************************************************************************)
(* The finance routes of the Express + Prisma API (services/api): account, *)
(* transaction and autopilot-rule creation and the forecast endpoint.      *)
(*                                                                         *)
(* JavaScript numbers are modelled as exact rationals [n, d] in lowest     *)
(* terms with d > 0: every JSON decimal literal is a rational, and the     *)
(* handlers only add, subtract, multiply, divide and compare.  Rounding of *)
(* IEEE-754 doubles is not modelled.                                       *)
(***************************************************************************)
EXTENDS Integers, Sequences, FiniteSets, TLC

VARIABLES accounts, transactions, rules, response, inflight,
          responseCache, hooks,
          users, registrations,
          toasts, timers, scheduled, provider

vars == <<accounts, transactions, rules, response, inflight, responseCache, hooks,
          users, registrations, toasts, timers, scheduled, provider>>

\* The state of the finance router, of the client's useApi hooks, of the
\* auth router and of the ToastProvider.
serverVars == <<accounts, transactions, rules, response, inflight>>
clientVars == <<responseCache, hooks>>
authVars == <<users, registrations>>
toastVars == <<toasts, timers, scheduled, provider>>

(***************************************************************************)
(* Bounds of the model.                                                    *)
(***************************************************************************)
\* Total number of rows the three finance tables may hold together, and of
\* the User table.
MaxRows == 3

\* Number of timeouts of the ToastProvider that may be pending at once.
MaxTimers == 4

(***************************************************************************)
(* Exact arithmetic on numbers.                                            *)
(***************************************************************************)
Abs(x) == IF x < 0 THEN -x ELSE x

RECURSIVE GCD(_, _)
GCD(a, b) == IF b = 0 THEN a ELSE GCD(b, a % b)

\* The number n/d (d # 0) in lowest terms with a positive denominator.
Rat(n, d) ==
    IF d = 1 THEN [n |-> n, d |-> 1]
    ELSE LET g == GCD(Abs(n), Abs(d))
             s == IF d < 0 THEN -1 ELSE 1
         IN  [n |-> (s * n) \div g, d |-> (s * d) \div g]

Num(i) == [n |-> i, d |-> 1]
Zero == Num(0)

\* The least common multiple of two positive denominators.
LCM(a, b) == (a \div GCD(a, b)) * b

RAdd(x, y) ==
    IF x.d = y.d THEN Rat(x.n + y.n, x.d)
    ELSE LET l == LCM(x.d, y.d)
         IN  Rat(x.n * (l \div x.d) + y.n * (l \div y.d), l)
RNeg(x) == [n |-> -x.n, d |-> x.d]
RSub(x, y) == RAdd(x, RNeg(y))
RMul(x, y) ==
    IF x.d = 1 /\ y.d = 1 THEN [n |-> x.n * y.n, d |-> 1]
    ELSE LET g1 == GCD(Abs(x.n), y.d)
             g2 == GCD(Abs(y.n), x.d)
         IN  Rat((x.n \div g1) * (y.n \div g2), (x.d \div g2) * (y.d \div g1))
RDiv(x, y) == RMul(x, Rat(y.d, y.n))
RLt(x, y) ==
    IF x.d = y.d THEN x.n < y.n
    ELSE LET l == LCM(x.d, y.d)
         IN  x.n * (l \div x.d) < y.n * (l \div y.d)
RLe(x, y) == x = y \/ RLt(x, y)
IsInteger(x) == x.d = 1

(***************************************************************************)
(* Requests.  A JSON value of a request body is [k, v]: its kind and, for  *)
(* a number, its value (for a boolean, 1 or 0).                            *)
(***************************************************************************)
JAbsent == [k |-> "absent", v |-> Zero]
JString == [k |-> "string", v |-> Zero]
JNum(r) == [k |-> "number", v |-> r]
JBool(b) == [k |-> "boolean", v |-> IF b THEN Num(1) ELSE Zero]

Users == {"u1", "u2"}
\* A request without a bearer token that resolves to a user.
NoUser == "anon"
Callers == Users \cup {NoUser}

\* The absent accountId of a request, and the NULL accountId of a stored rule.
NoAccount == 0

DefaultHorizon == 30
MaxHorizon == 180

Balances == {Num(-100), Rat(420032, 100)}
Amounts == {Num(2400), Num(-950)}
Percentages == {Rat(-1, 10), Zero, Rat(3, 10), Num(1), Rat(11, 10)}

HorizonInputs ==
    {JAbsent, JString, JNum(Rat(61, 2))}
        \cup {JNum(Num(h)) : h \in {-5, 0, 1, DefaultHorizon, MaxHorizon, MaxHorizon + 1}}
BalanceInputs == {JString} \cup {JNum(b) : b \in Balances}

AccountTypes == {"CHECKING", "SAVINGS", "CREDIT", "CASH", "INVESTMENT"}

(***************************************************************************)
(* zod checks.                                                             *)
(***************************************************************************)
\* z.number()
zNumber(j) == j.k = "number"
\* z.string()
zString(j) == j.k = "string"
\* z.boolean().optional()
zBooleanOptional(j) == j.k \in {"boolean", "absent"}
\* z.string().min(lo) / .max(hi) on a string of the given length
zStringMin(len, lo) == len >= lo
zStringMax(len, hi) == len <= hi

\* Mutant: .nonnegative() in place of .positive().
horizonSchemaAcceptsZero(j) ==
    \/ j.k = "absent"
    \/ /\ zNumber(j)
       /\ IsInteger(j.v)
       /\ RLe(Zero, j.v)
       /\ RLe(j.v, Num(MaxHorizon))

\* z.number().int().positive().max(180).default(30): does the value parse?
horizonSchemaAccepts(j) ==
    \/ j.k = "absent"
    \/ /\ zNumber(j)
       /\ IsInteger(j.v)
       /\ RLt(Zero, j.v)
       /\ RLe(j.v, Num(MaxHorizon))

\* Mutant: the default is the upper limit.
horizonSchemaParseDefaultMax(j) == IF j.k = "absent" THEN Num(MaxHorizon) ELSE j.v

\* The parsed horizonDays of an accepted body.
horizonSchemaParse(j) == IF j.k = "absent" THEN Num(DefaultHorizon) ELSE j.v

\* accountSchema
accountSchema(body) ==
    /\ zStringMin(body.nameLen, 3)
    /\ body.type \in AccountTypes
    /\ zStringMin(body.currencyLen, 3)
    /\ zStringMax(body.currencyLen, 10)
    /\ zNumber(body.balance)

\* transactionSchema
transactionSchema(body) ==
    /\ body.accountId # NoAccount
    /\ zStringMin(body.descriptionLen, 3)
    /\ zNumber(body.amount)
    /\ zString(body.category)
    /\ body.occurredAtIsDatetime

\* ruleSchema
ruleSchema(body) ==
    /\ zStringMin(body.nameLen, 3)
    /\ zNumber(body.percentage)
    /\ RLe(Zero, body.percentage.v)
    /\ RLe(body.percentage.v, Num(1))
    /\ zString(body.destination)
    /\ zBooleanOptional(body.active)

(***************************************************************************)
(* The store: the FinanceAccount, Transaction and AutopilotRule tables, in *)
(* insertion order.  An account's id is its position in its table.  The    *)
(* ownerId column of a rule is written and read by no route; it is not     *)
(* kept.  Queries and handlers take the store they run on as an argument.  *)
(***************************************************************************)
Store == [accounts |-> accounts, transactions |-> transactions, rules |-> rules]

RowCount == Len(accounts) + Len(transactions) + Len(rules)

AccountExists(store, id) == id \in 1 .. Len(store.accounts)

\* include: { transactions: true, autopilotRules: true }
include(store, account) ==
    [id |-> account.id,
     ownerId |-> account.ownerId,
     currencyLen |-> account.currencyLen,
     balance |-> account.balance,
     transactions |->
         SelectSeq(store.transactions, LAMBDA t : t.accountId = account.id),
     autopilotRules |->
         SelectSeq(store.rules, LAMBDA r : r.accountId = account.id)]

\* Mutant: the query has no where clause.
findManyAccountsAnyOwner(store, ownerId) ==
    [i \in 1 .. Len(store.accounts) |-> include(store, store.accounts[i])]

\* prisma.financeAccount.findMany({ where: { ownerId }, include: {...} })
findManyAccounts(store, ownerId) ==
    LET owned == SelectSeq(store.accounts, LAMBDA a : a.ownerId = ownerId)
    IN  [i \in 1 .. Len(owned) |-> include(store, owned[i])]

\* Mutant: the lookup has no ownerId in its where clause.
findFirstAccountAnyOwner(store, id, ownerId) == AccountExists(store, id)

\* prisma.financeAccount.findFirst({ where: { id, ownerId } }): is there one?
findFirstAccount(store, id, ownerId) ==
    AccountExists(store, id) /\ store.accounts[id].ownerId = ownerId

(***************************************************************************)
(* The forecast computation of POST /finance/forecast.                     *)
(***************************************************************************)
\* Mutant: the reduce starts from 1.
RECURSIVE reduceAmountsFromOne(_)
reduceAmountsFromOne(list) ==
    IF list = <<>> THEN Num(1)
    ELSE RAdd(reduceAmountsFromOne(SubSeq(list, 1, Len(list) - 1)),
              list[Len(list)].amount)

\* Mutant: the callback returns the amount, not sum + amount.
reduceAmountsLastOnly(list) ==
    IF list = <<>> THEN Zero ELSE list[Len(list)].amount

\* list.reduce((sum, t) => sum + t.amount, 0)
RECURSIVE reduceAmounts(_)
reduceAmounts(list) ==
    IF list = <<>> THEN Zero
    ELSE RAdd(reduceAmounts(SubSeq(list, 1, Len(list) - 1)), list[Len(list)].amount)

inflows(account) ==
    reduceAmounts(SelectSeq(account.transactions, LAMBDA t : RLt(Zero, t.amount)))

\* Mutant: the outflow filter repeats the inflow test.
outflowsAsInflows(account) ==
    reduceAmounts(SelectSeq(account.transactions, LAMBDA t : RLt(Zero, t.amount)))

outflows(account) ==
    reduceAmounts(SelectSeq(account.transactions, LAMBDA t : RLt(t.amount, Zero)))

\* Mutant: the callback does not look at rule.active.
autopilotStepAnyRule(sum, balance, rule) ==
    RAdd(sum, RMul(balance, rule.percentage))

\* Mutant: the callback adds the percentage, not balance * percentage.
autopilotStepPercentage(sum, balance, rule) ==
    IF ~rule.active THEN sum
    ELSE RAdd(sum, rule.percentage)

\* One step of the autopilot reduce: the callback applied to (sum, rule).
autopilotStep(sum, balance, rule) ==
    IF ~rule.active THEN sum
    ELSE RAdd(sum, RMul(balance, rule.percentage))

RECURSIVE reduceRules(_, _)
reduceRules(list, balance) ==
    IF list = <<>> THEN Zero
    ELSE autopilotStep(reduceRules(SubSeq(list, 1, Len(list) - 1), balance),
                       balance, list[Len(list)])

\* Mutant: the accrual is capped at the balance.
autopilotCappedAtBalance(account) ==
    LET sum == reduceRules(account.autopilotRules, account.balance)
    IN  IF RLt(account.balance, sum) THEN account.balance ELSE sum

autopilot(account) == reduceRules(account.autopilotRules, account.balance)

Max(a, b) == IF a >= b THEN a ELSE b

\* Mutant: the net flow is not divided by the number of transactions.
netPerTransactionUndivided(account) == RAdd(inflows(account), outflows(account))

\* (inflows + outflows) / Math.max(account.transactions.length, 1)
netPerTransaction(account) ==
    RDiv(RAdd(inflows(account), outflows(account)),
         Num(Max(Len(account.transactions), 1)))

\* Mutant: the horizon multiplies balance + net.
projectedScalesBalance(account, horizonDays) ==
    RSub(RMul(RAdd(account.balance, netPerTransaction(account)), horizonDays),
         autopilot(account))

\* Mutant: the autopilot accrual is taken once per day of the horizon.
projectedAccruesDaily(account, horizonDays) ==
    RSub(RAdd(account.balance, RMul(netPerTransaction(account), horizonDays)),
         RMul(autopilot(account), horizonDays))

projected(account, horizonDays) ==
    RSub(RAdd(account.balance, RMul(netPerTransaction(account), horizonDays)),
         autopilot(account))

\* Mutant: the row reports the projection as the balance.
ForecastRowBalanceProjected(account, horizonDays) ==
    [accountId |-> account.id,
     balance |-> projected(account, horizonDays),
     projected |-> projected(account, horizonDays),
     horizonDays |-> horizonDays,
     autopilot |-> autopilot(account)]

ForecastRow(account, horizonDays) ==
    [accountId |-> account.id,
     balance |-> account.balance,
     projected |-> projected(account, horizonDays),
     horizonDays |-> horizonDays,
     autopilot |-> autopilot(account)]

RECURSIVE totalBalance(_)
totalBalance(loaded) ==
    IF loaded = <<>> THEN Zero
    ELSE RAdd(loaded[1].balance, totalBalance(Tail(loaded)))

\* Mutant: the rules accrue on the total of the caller's balances.
forecastOnTotalBalance(loaded, horizonDays) ==
    [i \in 1 .. Len(loaded) |->
        [ForecastRow(loaded[i], horizonDays) EXCEPT
            !.autopilot = reduceRules(loaded[i].autopilotRules,
                                      totalBalance(loaded))]]

forecast(loaded, horizonDays) ==
    [i \in 1 .. Len(loaded) |-> ForecastRow(loaded[i], horizonDays)]

(***************************************************************************)
(* Responses.  rows holds the forecast rows or the one created row;        *)
(* queried tells whether the handler read the FinanceAccount table.        *)
(***************************************************************************)
Respond(endpoint, status, message, rows, queried) ==
    [endpoint |-> endpoint, status |-> status, message |-> message,
     rows |-> rows, queried |-> queried]

\* requireAuth
Unauthorized(endpoint) ==
    Respond(endpoint, 401, "Authentication required", <<>>, FALSE)

\* errorHandler on a ZodError
ValidationFailed(endpoint) ==
    Respond(endpoint, 400, "Validation failed", <<>>, FALSE)

(***************************************************************************)
(* The handlers of financeRouter, each run to its response: the store the  *)
(* handler leaves and the response it sends.                               *)
(***************************************************************************)
Result(store, resp) == [store |-> store, response |-> resp]

\* POST /finance/accounts
postAccounts(store, caller, body) ==
    IF caller = NoUser THEN Result(store, Unauthorized("accounts"))
    ELSE IF ~accountSchema(body) THEN Result(store, ValidationFailed("accounts"))
    ELSE
        LET account == [id |-> Len(store.accounts) + 1,
                        ownerId |-> caller,
                        currencyLen |-> body.currencyLen,
                        balance |-> body.balance.v]
        IN  Result([store EXCEPT !.accounts = Append(@, account)],
                   Respond("accounts", 201, "", <<account>>, FALSE))

\* Mutant: the amount of the new transaction is applied to the balance.
postTransactionsAdjustsBalance(store, caller, body) ==
    IF caller = NoUser THEN Result(store, Unauthorized("transactions"))
    ELSE IF ~transactionSchema(body) THEN
        Result(store, ValidationFailed("transactions"))
    ELSE IF ~findFirstAccount(store, body.accountId, caller) THEN
        Result(store, Respond("transactions", 404, "Account not found", <<>>, TRUE))
    ELSE
        LET transaction == [accountId |-> body.accountId,
                            amount |-> body.amount.v]
        IN  Result([store EXCEPT !.transactions = Append(@, transaction),
                                 !.accounts[body.accountId].balance =
                                     RAdd(@, body.amount.v)],
                   Respond("transactions", 201, "", <<transaction>>, TRUE))

\* POST /finance/transactions
postTransactions(store, caller, body) ==
    IF caller = NoUser THEN Result(store, Unauthorized("transactions"))
    ELSE IF ~transactionSchema(body) THEN
        Result(store, ValidationFailed("transactions"))
    ELSE IF ~findFirstAccount(store, body.accountId, caller) THEN
        Result(store, Respond("transactions", 404, "Account not found", <<>>, TRUE))
    ELSE
        LET transaction == [accountId |-> body.accountId,
                            amount |-> body.amount.v]
        IN  Result([store EXCEPT !.transactions = Append(@, transaction)],
                   Respond("transactions", 201, "", <<transaction>>, TRUE))

\* POST /finance/autopilot-rules
postAutopilotRules(store, caller, body) ==
    IF caller = NoUser THEN Result(store, Unauthorized("autopilot-rules"))
    ELSE IF ~ruleSchema(body) THEN
        Result(store, ValidationFailed("autopilot-rules"))
    ELSE IF body.accountId # NoAccount /\ ~AccountExists(store, body.accountId) THEN
        \* AutopilotRule_accountId_fkey: prisma throws, errorHandler answers 500
        Result(store, Respond("autopilot-rules", 500,
                              "Foreign key constraint failed", <<>>, FALSE))
    ELSE
        LET rule == [accountId |-> body.accountId,
                     percentage |-> body.percentage.v,
                     active |-> IF body.active.k = "absent" THEN TRUE
                                ELSE body.active.v = Num(1)]
        IN  Result([store EXCEPT !.rules = Append(@, rule)],
                   Respond("autopilot-rules", 201, "", <<rule>>, FALSE))

\* Mutant: the handler writes each projected value back as the balance.
postForecastWritesProjected(store, caller, body) ==
    IF caller = NoUser THEN Result(store, Unauthorized("forecast"))
    ELSE IF ~horizonSchemaAccepts(body.horizonDays) THEN
        Result(store, ValidationFailed("forecast"))
    ELSE
        LET H == horizonSchemaParse(body.horizonDays)
        IN  Result([store EXCEPT !.accounts =
                        [i \in 1 .. Len(store.accounts) |->
                            IF store.accounts[i].ownerId = caller
                            THEN [store.accounts[i] EXCEPT !.balance =
                                      projected(include(store, store.accounts[i]), H)]
                            ELSE store.accounts[i]]],
                   Respond("forecast", 200, "",
                           forecast(findManyAccounts(store, caller), H), TRUE))

\* POST /finance/forecast
postForecast(store, caller, body) ==
    IF caller = NoUser THEN Result(store, Unauthorized("forecast"))
    ELSE IF ~horizonSchemaAccepts(body.horizonDays) THEN
        Result(store, ValidationFailed("forecast"))
    ELSE
        Result(store,
               Respond("forecast", 200, "",
                       forecast(findManyAccounts(store, caller),
                                horizonSchemaParse(body.horizonDays)),
                       TRUE))

(***************************************************************************)
(* The request bodies tried.                                               *)
(***************************************************************************)
\* The ids requests name: an account that has a transaction or a rule leaves
\* room for at most MaxRows - 1 accounts, and an id names none until that many
\* are stored.
AccountIdInputs == 1 .. (MaxRows - 1)

AccountBody(balance) ==
    [nameLen |-> 8, type |-> "CHECKING", currencyLen |-> 3, balance |-> balance]

AccountBodies ==
    {AccountBody(b) : b \in BalanceInputs}
        \cup {[AccountBody(JNum(Zero)) EXCEPT !.type = "LOAN"],
              [AccountBody(JNum(Zero)) EXCEPT !.currencyLen = 11]}

TransactionBody(accountId, amount) ==
    [accountId |-> accountId, descriptionLen |-> 8, amount |-> amount,
     category |-> JString, occurredAtIsDatetime |-> TRUE]

TransactionBodies ==
    {TransactionBody(id, JNum(a)) : id \in AccountIdInputs, a \in Amounts}
        \cup {TransactionBody(1, JString),
              TransactionBody(NoAccount, JNum(Num(2400))),
              [TransactionBody(1, JNum(Num(2400))) EXCEPT !.occurredAtIsDatetime = FALSE]}

RuleBody(accountId, percentage, active) ==
    [accountId |-> accountId, nameLen |-> 8, percentage |-> percentage,
     destination |-> JString, active |-> active]

\* The (percentage, active) pairs of the rules tried on each account.
RuleSettings ==
    {<<JNum(Zero), JAbsent>>, <<JNum(Rat(3, 10)), JBool(TRUE)>>,
     <<JNum(Num(1)), JBool(FALSE)>>}

RuleBodies ==
    {RuleBody(id, s[1], s[2]) : id \in AccountIdInputs, s \in RuleSettings}
        \cup {RuleBody(1, p, JAbsent) :
                 p \in {JAbsent, JNum(Rat(-1, 10)), JNum(Rat(11, 10))}}
        \cup {RuleBody(NoAccount, JNum(Rat(3, 10)), JAbsent),
              RuleBody(1, JNum(Rat(3, 10)), JString),
              [RuleBody(1, JNum(Rat(3, 10)), JAbsent) EXCEPT !.nameLen = 2]}

ForecastBodies == {[horizonDays |-> h] : h \in HorizonInputs}

\* requireAuth answers before the body is read: one body is enough without a user.
BodiesOf(caller, bodies) ==
    IF caller = NoUser THEN {CHOOSE body \in bodies : TRUE} ELSE bodies

(***************************************************************************)
(* The state machine: one action per handler.                              *)
(***************************************************************************)
\* ---------------------------------------------------------------------------
\* The client's useApi hook: the module-level responseCache and the hook
\* instances that read and write it.
\* ---------------------------------------------------------------------------

\* The components that call useApi.
Hooks == {"h1", "h2"}

\* undefined: an option that is not given, a key that is not in the Map.
Undefined == "undefined"

\* merged.path + buildQueryString(...): every hook here asks the same path.
PathKey == "/finance/accounts"

Keys == {"k1", "k2", PathKey}

\* The JSON bodies the server answers a GET with.
Values == {"v1", "v2"}

\* The bearer tokens of two signed-in users.
Tokens == {"t1", "t2"}

\* The configurations of the hooks: method, cacheKey, skip and token.
Config(method, cacheKey, skip) ==
    [method |-> method, cacheKey |-> cacheKey, skip |-> skip,
     token |-> Undefined]

\* The configuration of a component rendered with a token, or without one
\* after logout.
WithToken(config, token) == [config EXCEPT !.token = token]

TokenConfigs ==
    {WithToken(Config("GET", "k1", FALSE), token) :
        token \in Tokens \cup {Undefined}}

Configs ==
    {Config("GET", "k1", FALSE), Config(Undefined, "k1", FALSE),
     Config("GET", Undefined, FALSE), Config("GET", "k1", TRUE)}

\* The overrides refetch is called with; Inherit: the property is not in the
\* override object and the spread keeps the configured one.
Inherit == "inherit"

Overrides ==
    {[method |-> Inherit, cacheKey |-> Inherit],
     [method |-> "POST", cacheKey |-> Inherit],
     [method |-> Inherit, cacheKey |-> "k2"],
     [method |-> Inherit, cacheKey |-> Undefined]}

\* A component that has not rendered yet.  key, writes and sent (the token
\* of the Authorization header) are the locals of the execute call whose
\* fetch is in flight, and controller tells the AbortController of that fetch
\* from the one of the fetch it replaced; they are kept only while a fetch is
\* in flight.
Null == "null"
NoHook ==
    [mounted |-> FALSE, config |-> Config(Undefined, Undefined, TRUE),
     pending |-> FALSE, controller |-> FALSE, key |-> PathKey,
     writes |-> FALSE, sent |-> Undefined, status |-> "idle",
     data |-> Undefined, error |-> Null, timestamp |-> Null]

\* new Map<string, unknown>()
EmptyCache == [k \in Keys |-> Undefined]

\* Forecast requests in flight: a request is waiting from schema.parse until
\* findMany returns, loaded until res.json, answered after it.  seen is not
\* program state: it records, as the three table lengths, every content the
\* tables had since the request started (rows are only ever appended).
Slots == {"r1", "r2"}

IdleRequest ==
    [phase |-> "idle", caller |-> NoUser, horizonDays |-> Zero,
     snapshot |-> <<>>, rows |-> <<>>, seen |-> {}]

Lens(store) == <<Len(store.accounts), Len(store.transactions), Len(store.rules)>>

\* The requests in flight once the tables hold the given store.
Observe(store) ==
    [s \in Slots |->
        IF inflight[s].phase \in {"waiting", "loaded"}
        THEN [inflight[s] EXCEPT !.seen = @ \cup {Lens(store)}]
        ELSE inflight[s]]

\* The auth router starts on an empty User table with no request under
\* way; the ToastProvider starts mounted with useState([]) and an empty
\* timer map.
Registrations == {"r1", "r2", "r3"}
IdleRegistration == [phase |-> "idle", email |-> "", status |-> 0, message |-> "",
                     token |-> FALSE]

InitAuth ==
    /\ users = <<>>
    /\ registrations = [r \in Registrations |-> IdleRegistration]

\* The ids toasts are shown with, given or generated, and the handles that
\* setTimeout returns; a timer map without an entry for an id holds NoHandle.
ToastIds == {"a", "b", "c", "d"}
Handles == 1 .. MaxTimers
NoHandle == 0
NoTimers == [id \in ToastIds |-> NoHandle]

InitToasts ==
    /\ toasts = <<>>
    /\ timers = NoTimers
    /\ scheduled = {}
    /\ provider = "mounted"

Init ==
    /\ accounts = <<>>
    /\ transactions = <<>>
    /\ rules = <<>>
    /\ response = Respond("none", 0, "", <<>>, FALSE)
    /\ inflight = [s \in Slots |-> IdleRequest]
    /\ responseCache = EmptyCache
    /\ hooks = [h \in Hooks |-> NoHook]
    /\ InitAuth
    /\ InitToasts

\* A request that stores a row needs room in the tables.  Each action runs
\* its handler once and takes the store and the response it returns.
HasRoomFor(result) == result.store = Store \/ RowCount < MaxRows

CreateAccount(caller, body) ==
    \E result \in {postAccounts(Store, caller, body)} :
        /\ HasRoomFor(result)
        /\ accounts' = result.store.accounts
        /\ transactions' = result.store.transactions
        /\ rules' = result.store.rules
        /\ response' = result.response
        /\ inflight' = Observe(result.store)
        /\ UNCHANGED <<clientVars, authVars, toastVars>>

CreateTransaction(caller, body) ==
    \E result \in {postTransactions(Store, caller, body)} :
        /\ HasRoomFor(result)
        /\ accounts' = result.store.accounts
        /\ transactions' = result.store.transactions
        /\ rules' = result.store.rules
        /\ response' = result.response
        /\ inflight' = Observe(result.store)
        /\ UNCHANGED <<clientVars, authVars, toastVars>>

CreateRule(caller, body) ==
    \E result \in {postAutopilotRules(Store, caller, body)} :
        /\ HasRoomFor(result)
        /\ accounts' = result.store.accounts
        /\ transactions' = result.store.transactions
        /\ rules' = result.store.rules
        /\ response' = result.response
        /\ inflight' = Observe(result.store)
        /\ UNCHANGED <<clientVars, authVars, toastVars>>

Forecast(caller, body) ==
    \E result \in {postForecast(Store, caller, body)} :
        /\ accounts' = result.store.accounts
        /\ transactions' = result.store.transactions
        /\ rules' = result.store.rules
        /\ response' = result.response
        /\ UNCHANGED <<inflight, clientVars, authVars, toastVars>>

Next ==
    \/ \E caller \in Callers : \E body \in BodiesOf(caller, AccountBodies) :
           CreateAccount(caller, body)
    \/ \E caller \in Callers : \E body \in BodiesOf(caller, TransactionBodies) :
           CreateTransaction(caller, body)
    \/ \E caller \in Callers : \E body \in BodiesOf(caller, RuleBodies) :
           CreateRule(caller, body)
    \/ \E caller \in Callers : \E body \in BodiesOf(caller, ForecastBodies) :
           Forecast(caller, body)

Spec == Init /\ [][Next]_vars

(***************************************************************************)
(* The forecast computation as a function of the loaded account graph: the *)
(* tables hold one account of u1 with any transactions and rules of the    *)
(* sets below, at most MaxRows of them, and the only requests are          *)
(* forecasts.                                                              *)
(***************************************************************************)
SnapshotAmounts == Amounts \cup {Num(100)}

SnapshotTransactions == {[accountId |-> 1, amount |-> a] : a \in SnapshotAmounts}

SnapshotRules ==
    {[accountId |-> 1, percentage |-> s[1].v,
      active |-> IF s[2].k = "absent" THEN TRUE ELSE s[2].v = Num(1)] :
        s \in RuleSettings}

SeqsUpTo(n, S) == UNION {[1 .. k -> S] : k \in 0 .. n}

InitEngine ==
    /\ accounts \in {<<[id |-> 1, ownerId |-> "u1", currencyLen |-> 3,
                         balance |-> b]>> : b \in Balances}
    /\ transactions \in SeqsUpTo(MaxRows, SnapshotTransactions)
    /\ rules \in SeqsUpTo(MaxRows, SnapshotRules)
    /\ Len(transactions) + Len(rules) <= MaxRows
    /\ response = Respond("none", 0, "", <<>>, FALSE)
    /\ inflight = [s \in Slots |-> IdleRequest]
    /\ responseCache = EmptyCache
    /\ hooks = [h \in Hooks |-> NoHook]
    /\ InitAuth
    /\ InitToasts

NextEngine ==
    \E caller \in Callers : \E body \in BodiesOf(caller, ForecastBodies) :
        Forecast(caller, body)

SpecEngine == InitEngine /\ [][NextEngine]_vars

\* ---------------------------------------------------------------------------
\* The forecast handler as the steps its one await separates: requireAuth and
\* schema.parse run when the request arrives, findMany resolves later with the
\* rows of that moment, and the map and res.json run on what it returned.
\* Other requests are served between any two of these steps.
\* ---------------------------------------------------------------------------

Started(request, resp) == [request |-> request, response |-> resp]

\* requireAuth, then schema.parse(req.body ?? {}), then the call of findMany.
startForecast(store, caller, body) ==
    IF caller = NoUser THEN Started(IdleRequest, Unauthorized("forecast"))
    ELSE IF ~horizonSchemaAccepts(body.horizonDays) THEN
        Started(IdleRequest, ValidationFailed("forecast"))
    ELSE
        Started([phase |-> "waiting", caller |-> caller,
                 horizonDays |-> horizonSchemaParse(body.horizonDays),
                 snapshot |-> <<>>, rows |-> <<>>, seen |-> {Lens(store)}],
                Respond("none", 0, "", <<>>, FALSE))

\* const accounts = await prisma.financeAccount.findMany(...)
loadForecast(store, request) ==
    [request EXCEPT !.phase = "loaded",
                    !.snapshot = findManyAccounts(store, request.caller)]

\* Mutant: the transactions and rules are read again when the rows are built.
answerForecastReloadsRelations(store, request) ==
    Result(store,
           Respond("forecast", 200, "",
                   forecast([i \in 1 .. Len(request.snapshot) |->
                                include(store, request.snapshot[i])],
                            request.horizonDays),
                   TRUE))

\* accounts.map(...) and res.json({ forecast })
answerForecast(store, request) ==
    Result(store,
           Respond("forecast", 200, "",
                   forecast(request.snapshot, request.horizonDays), TRUE))

StartForecast(slot, caller, body) ==
    /\ inflight[slot].phase = "idle"
    /\ \E started \in {startForecast(Store, caller, body)} :
           /\ inflight' = [inflight EXCEPT ![slot] = started.request]
           /\ response' = IF started.request.phase = "waiting" THEN response
                          ELSE started.response
    /\ UNCHANGED <<accounts, transactions, rules, clientVars, authVars, toastVars>>

LoadForecast(slot) ==
    /\ inflight[slot].phase = "waiting"
    /\ inflight' = [inflight EXCEPT ![slot] = loadForecast(Store, @)]
    /\ UNCHANGED <<accounts, transactions, rules, response, clientVars, authVars, toastVars>>

AnswerForecast(slot) ==
    /\ inflight[slot].phase = "loaded"
    /\ \E result \in {answerForecast(Store, inflight[slot])} :
           /\ accounts' = result.store.accounts
           /\ transactions' = result.store.transactions
           /\ rules' = result.store.rules
           /\ response' = result.response
           /\ inflight' = [inflight EXCEPT ![slot].phase = "answered",
                                           ![slot].rows = result.response.rows]
           /\ UNCHANGED <<clientVars, authVars, toastVars>>

\* The requests that race with the forecasts: one accepted body of each kind.
ConcurrentAccountBodies == {AccountBody(JNum(Rat(420032, 100)))}

ConcurrentTransactionBodies == {TransactionBody(1, JNum(Num(2400)))}

ConcurrentRuleBodies == {RuleBody(1, JNum(Rat(3, 10)), JBool(TRUE))}

ConcurrentForecastBodies ==
    {[horizonDays |-> h] : h \in {JAbsent, JNum(Num(MaxHorizon + 1))}}

\* Accounts are opened by every user; the other requests come from one user
\* or from nobody.
ConcurrentCallers == {"u1", NoUser}

NextConcurrent ==
    \/ \E caller \in Users : \E body \in ConcurrentAccountBodies :
           CreateAccount(caller, body)
    \/ \E caller \in ConcurrentCallers \ {NoUser} :
           \E body \in ConcurrentTransactionBodies :
               CreateTransaction(caller, body)
    \/ \E caller \in ConcurrentCallers \ {NoUser} :
           \E body \in ConcurrentRuleBodies :
               CreateRule(caller, body)
    \/ \E slot \in Slots : \E caller \in ConcurrentCallers :
           \E body \in BodiesOf(caller, ConcurrentForecastBodies) :
               StartForecast(slot, caller, body)
    \/ \E slot \in Slots : LoadForecast(slot)
    \/ \E slot \in Slots : AnswerForecast(slot)

SpecConcurrent == Init /\ [][NextConcurrent]_vars

\* ---------------------------------------------------------------------------
\* The same server driven with rules of large percentages: every rule body
\* here passes ruleSchema on its own.
\* ---------------------------------------------------------------------------

LargeRuleSettings ==
    {<<JNum(Rat(3, 5)), JBool(TRUE)>>, <<JNum(Num(1)), JAbsent>>,
     <<JNum(Num(1)), JBool(FALSE)>>}

LargeRuleBodies == {RuleBody(1, s[1], s[2]) : s \in LargeRuleSettings}

NextLargeRules ==
    \/ \E body \in {AccountBody(JNum(b)) : b \in Balances} :
           CreateAccount("u1", body)
    \/ \E body \in ConcurrentTransactionBodies : CreateTransaction("u1", body)
    \/ \E body \in LargeRuleBodies : CreateRule("u1", body)
    \/ \E body \in ForecastBodies : Forecast("u1", body)

SpecLargeRules == Init /\ [][NextLargeRules]_vars

\* ---------------------------------------------------------------------------
\* useApi: execute, the completion of its fetch, the mount effects and their
\* cleanup, and clearApiCache.
\* ---------------------------------------------------------------------------

\* const merged = { ...config, ...override }
mergedConfig(config, override) ==
    [method |-> IF override.method = Inherit THEN config.method
                ELSE override.method,
     cacheKey |-> IF override.cacheKey = Inherit THEN config.cacheKey
                  ELSE override.cacheKey]

\* const key = merged.cacheKey ?? merged.path + buildQueryString(...)
keyOf(merged) == IF merged.cacheKey # Undefined THEN merged.cacheKey ELSE PathKey

\* merged.method === 'GET' && cacheKey
isCached(config, merged) == merged.method = "GET" /\ config.cacheKey # Undefined

\* Mutant: the lookup uses the configured cacheKey, not the merged key.
cacheHitOnConfiguredKey(cache, config, merged) ==
    /\ isCached(config, merged)
    /\ cache[config.cacheKey] # Undefined

\* Mutant: the hit requires the entry to be the response for the hook's token.
cacheHitForToken(cache, config, merged) ==
    /\ isCached(config, merged)
    /\ cache[keyOf(merged)] # Undefined
    /\ cache[keyOf(merged)] = (IF config.token = "t1" THEN "v1" ELSE "v2")

\* merged.method === 'GET' && cacheKey && responseCache.has(key)
cacheHit(cache, config, merged) ==
    /\ isCached(config, merged)
    /\ cache[keyOf(merged)] # Undefined

\* The actions of the reducer.
Loading == [type |-> "loading", payload |-> Undefined, error |-> Null]
Success(payload) == [type |-> "success", payload |-> payload, error |-> Null]
Failure(error) == [type |-> "error", payload |-> Undefined, error |-> error]
Reset == [type |-> "reset", payload |-> Undefined, error |-> Null]

\* reducer(state, action), now being what Date.now() returns; the state is
\* the fields status, data, error and timestamp of the hook.
reducerLoadingClearsData(state, action, now) ==
    IF action.type = "loading" THEN
        [state EXCEPT !.status = "loading", !.error = Null, !.data = Undefined]
    ELSE IF action.type = "success" THEN
        [state EXCEPT !.data = action.payload, !.error = Null,
                      !.status = "success", !.timestamp = now]
    ELSE IF action.type = "error" THEN
        [state EXCEPT !.status = "error", !.error = action.error]
    ELSE
        [state EXCEPT !.data = Undefined, !.error = Null, !.status = "idle",
                      !.timestamp = Null]

reducer(state, action, now) ==
    IF action.type = "loading" THEN
        [state EXCEPT !.status = "loading", !.error = Null]
    ELSE IF action.type = "success" THEN
        [state EXCEPT !.data = action.payload, !.error = Null,
                      !.status = "success", !.timestamp = now]
    ELSE IF action.type = "error" THEN
        [state EXCEPT !.status = "error", !.error = action.error]
    ELSE
        [state EXCEPT !.data = Undefined, !.error = Null, !.status = "idle",
                      !.timestamp = Null]

\* Date.now() at a dispatch of the hook.
Now == "now"

\* dispatch(action).  React drops the state of a component that is
\* unmounted.
dispatch(hook, action) ==
    IF hook.mounted THEN reducer(hook, action, Now) ELSE hook

\* What the catch block of an aborted request receives: the AbortError
\* DOMException of the rejected fetch, or, when the abort hits the read of
\* the body of a non-ok response, the Error thrown after
\* response.json().catch(() => ({})).
AbortError == "AbortError"
RequestFailed == "Error"
Aborted == {AbortError, RequestFailed}

isAbort(error) == error = AbortError

\* The catch block of execute.
catch(hook, error) ==
    IF ~hook.mounted \/ isAbort(error) THEN hook
    ELSE dispatch(hook, Failure(error))

\* execute(override) up to its await: the hook afterwards.  Starting a fetch
\* aborts the one the hook had in flight, whose promise rejects with aborted
\* and runs its catch block before anything else happens.
execute(cache, hook, override, aborted) ==
    LET merged == mergedConfig(hook.config, override)
        started == [dispatch(hook, Loading) EXCEPT
                         !.pending = TRUE,
                         !.controller = ~@,
                         !.key = keyOf(merged),
                         !.writes = isCached(hook.config, merged),
                         !.sent = hook.config.token]
    IN  IF hook.config.skip THEN hook
        ELSE IF cacheHit(cache, hook.config, merged) THEN
            dispatch(hook, Success(cache[keyOf(merged)]))
        ELSE IF hook.pending THEN catch(started, aborted)
        ELSE started

Done(hook, cache) == [hook |-> hook, cache |-> cache]

\* execute after its await: the fetch answered ok with json, or failed.
complete(cache, hook, ok, json) ==
    LET settled == [hook EXCEPT !.pending = FALSE, !.controller = FALSE,
                                !.key = PathKey, !.writes = FALSE,
                                !.sent = Undefined]
    IN  IF ~hook.mounted THEN Done(settled, cache)
        ELSE IF ~ok THEN Done(catch(settled, RequestFailed), cache)
        ELSE Done(dispatch(settled, Success(json)),
                  IF hook.writes THEN [cache EXCEPT ![hook.key] = json]
                  ELSE cache)

\* The first render of a component and its effects: mountedRef.current =
\* true, then execute().
Mount(h, config) ==
    /\ ~hooks[h].mounted
    /\ hooks' = [hooks EXCEPT ![h] =
                    execute(responseCache,
                            [NoHook EXCEPT !.mounted = TRUE, !.config = config],
                            [method |-> Inherit, cacheKey |-> Inherit],
                            AbortError)]
    /\ UNCHANGED <<responseCache, serverVars, authVars, toastVars>>

\* The cleanup of the mount effect: mountedRef.current = false and abort().
Unmount(h) ==
    /\ hooks[h].mounted
    /\ hooks' = [hooks EXCEPT ![h] = [NoHook EXCEPT !.config = hooks[h].config]]
    /\ UNCHANGED <<responseCache, serverVars, authVars, toastVars>>

\* refetch(override), also from a callback that outlives the component.
Refetch(h, override, aborted) ==
    /\ hooks[h].config # NoHook.config
    /\ hooks' = [hooks EXCEPT ![h] = execute(responseCache, @, override, aborted)]
    /\ UNCHANGED <<responseCache, serverVars, authVars, toastVars>>

\* What a fetch can settle with: a failure, or ok with a JSON body.
Outcomes == {<<FALSE, Undefined>>} \cup {<<TRUE, json>> : json \in Values}

\* The fetch of a hook settles.
Complete(h, ok, json) ==
    /\ hooks[h].pending
    /\ \E done \in {complete(responseCache, hooks[h], ok, json)} :
           /\ hooks' = [hooks EXCEPT ![h] = done.hook]
           /\ responseCache' = done.cache
    /\ UNCHANGED <<serverVars, authVars, toastVars>>

\* clearApiCache()
ClearApiCache ==
    /\ responseCache' = EmptyCache
    /\ UNCHANGED <<hooks, serverVars, authVars, toastVars>>

\* The cache is exercised with requests that are aborted while their fetch
\* is pending; NextAbort aborts them at every point.
NextCache ==
    \/ \E h \in Hooks : \E config \in Configs : Mount(h, config)
    \/ \E h \in Hooks : Unmount(h)
    \/ \E h \in Hooks : \E override \in Overrides :
           Refetch(h, override, AbortError)
    \/ \E h \in Hooks : \E outcome \in Outcomes : Complete(h, outcome[1], outcome[2])
    \/ ClearApiCache

SpecCache == Init /\ [][NextCache]_vars

\* One hook instance whose requests are superseded by refetch at any point
\* of the earlier request, and which is unmounted with a request in flight.
NextAbort ==
    \E h \in {"h1"} :
        \/ \E config \in Configs : Mount(h, config)
        \/ Unmount(h)
        \/ \E override \in Overrides : \E aborted \in Aborted :
               Refetch(h, override, aborted)
        \/ \E outcome \in Outcomes : Complete(h, outcome[1], outcome[2])
        \/ ClearApiCache

SpecAbort == Init /\ [][NextAbort]_vars

\* mutate(updater): dispatch success with updater(state.data).
Mutate(h, value) ==
    /\ hooks[h].mounted
    /\ hooks' = [hooks EXCEPT ![h] = dispatch(@, Success(value))]
    /\ UNCHANGED <<responseCache, serverVars, authVars, toastVars>>

\* The reducer applied to the state of a mounted hook, for every action of
\* its type and two readings of Date.now().
Times == {Now, "later"}
Actions ==
    {Loading, Reset} \cup {Success(value) : value \in Values}
        \cup {Failure(error) : error \in Aborted}

Reduce(h, action, now) ==
    /\ hooks[h].mounted
    /\ hooks' = [hooks EXCEPT ![h] = reducer(@, action, now)]
    /\ UNCHANGED <<responseCache, serverVars, authVars, toastVars>>

NextReducer ==
    \E h \in {"h1"} :
        \/ \E config \in Configs : Mount(h, config)
        \/ Unmount(h)
        \/ \E override \in Overrides : \E aborted \in Aborted :
               Refetch(h, override, aborted)
        \/ \E outcome \in Outcomes : Complete(h, outcome[1], outcome[2])
        \/ \E value \in Values : Mutate(h, value)
        \/ \E action \in Actions : \E now \in Times : Reduce(h, action, now)

SpecReducer == Init /\ [][NextReducer]_vars

\* ---------------------------------------------------------------------------
\* useApi in components that are rendered with the token of the signed-in
\* user: the token changes when another user signs in and is undefined after
\* logout.
\* ---------------------------------------------------------------------------

NoOverride == [method |-> Inherit, cacheKey |-> Inherit]

\* A render with another config: execute is a new callback, and the effect
\* that depends on it calls execute().
Rerender(h, config, aborted) ==
    /\ hooks[h].mounted
    /\ hooks[h].config # config
    /\ hooks' = [hooks EXCEPT ![h] =
                    execute(responseCache, [@ EXCEPT !.config = config], NoOverride,
                            aborted)]
    /\ UNCHANGED <<responseCache, serverVars, authVars, toastVars>>

\* GET /accounts answers with the accounts of the user of the token.
BodyFor(token) == IF token = "t1" THEN "v1" ELSE "v2"

\* What the fetch of a request sent with the token settles with: requireAuth
\* answers 401 without a token.
OutcomesFor(token) ==
    {<<FALSE, Undefined>>} \cup
        (IF token \in Tokens THEN {<<TRUE, BodyFor(token)>>} ELSE {})

\* A fetch is answered for the token it was sent with, which after a cache
\* hit of a later render is not the token of the hook's config.
NextTokens ==
    \/ \E h \in Hooks : \E config \in TokenConfigs : Mount(h, config)
    \/ \E h \in Hooks : \E config \in TokenConfigs : \E aborted \in Aborted :
           Rerender(h, config, aborted)
    \/ \E h \in Hooks : Unmount(h)
    \/ \E h \in Hooks : \E aborted \in Aborted : Refetch(h, NoOverride, aborted)
    \/ \E h \in Hooks : \E outcome \in OutcomesFor(hooks[h].sent) :
           Complete(h, outcome[1], outcome[2])
    \/ ClearApiCache

SpecTokens == Init /\ [][NextTokens]_vars

\* ---------------------------------------------------------------------------
\* The dashboard of the client: it shows the accounts GET /accounts returned
\* and computes its autopilot totals from them.
\* ---------------------------------------------------------------------------

\* GET /accounts: the caller's accounts with their transactions and rules,
\* orderBy: { createdAt: 'desc' }.
getAccounts(store, caller) ==
    LET loaded == findManyAccounts(store, caller)
    IN  [i \in 1 .. Len(loaded) |-> loaded[Len(loaded) + 1 - i]]

\* .filter((rule) => rule.active)
filterActive(list) == SelectSeq(list, LAMBDA rule : rule.active)

\* .reduce((sum, rule) => sum + account.balance * rule.percentage, 0)
RECURSIVE reduceAccruals(_, _)
reduceAccruals(list, balance) ==
    IF list = <<>> THEN Zero
    ELSE RAdd(reduceAccruals(SubSeq(list, 1, Len(list) - 1), balance),
              RMul(balance, list[Len(list)].percentage))

\* Mutant: the total counts the paused rules too.
autopilotTotalAnyRule(account) ==
    reduceAccruals(account.autopilotRules, account.balance)

\* The autopilot total on an account card.
autopilotTotal(account) ==
    reduceAccruals(filterActive(account.autopilotRules), account.balance)

\* const accountQueued = ... inside autopilotQueued
accountQueued(account) ==
    reduceAccruals(filterActive(account.autopilotRules), account.balance)

\* "Autopilot queued": accounts.reduce((sum, account) => sum + accountQueued, 0)
RECURSIVE autopilotQueued(_)
autopilotQueued(list) ==
    IF list = <<>> THEN Zero
    ELSE RAdd(autopilotQueued(SubSeq(list, 1, Len(list) - 1)),
              accountQueued(list[Len(list)]))

\* ---------------------------------------------------------------------------
\* Authentication: attachUser runs before every router and requireAuth before
\* every finance handler.
\* ---------------------------------------------------------------------------

\* req.headers.authorization, as the two parts headerValue.split(' ') yields.
Header(scheme, token) == [scheme |-> scheme, token |-> token]

NoHeader == Header(Undefined, Undefined)

\* Scheme and token strings: "forged" fails jwt.verify, "ghost" verifies with
\* the id of a user that is not in the User table, "" is a missing token.
Headers ==
    {NoHeader, Header("Bearer", ""), Header("Basic", "t1"),
     Header("Bearer", "forged"), Header("Bearer", "ghost")}
        \cup {Header(scheme, token) : scheme \in {"Bearer", "bearer"}, token \in Tokens}

\* scheme?.toLowerCase()
toLowerCase(string) == IF string = "Bearer" THEN "bearer" ELSE
                       IF string = "Basic" THEN "basic" ELSE string

\* Mutant: the scheme is not compared.
parseTokenAnyScheme(headerValue) ==
    IF headerValue = NoHeader THEN Undefined
    ELSE IF headerValue.token = "" THEN Undefined
    ELSE headerValue.token

\* parseToken: the token, or Undefined for null.
parseToken(headerValue) ==
    IF headerValue = NoHeader THEN Undefined
    ELSE IF toLowerCase(headerValue.scheme) # "bearer" \/ headerValue.token = ""
    THEN Undefined
    ELSE headerValue.token

\* jwt.verify(token, config.jwtSecret): payload.sub, or "throws".
jwtVerify(token) ==
    IF token = "t1" THEN "u1" ELSE
    IF token = "t2" THEN "u2" ELSE
    IF token = "ghost" THEN "u9" ELSE "throws"

\* prisma.user.findUnique({ where: { id } }): the user, or NoUser for null.
findUniqueUser(id) == IF id \in Users THEN id ELSE NoUser

\* attachUser: req.user after it, NoUser when it is left unset.
attachUser(headerValue) ==
    LET token == parseToken(headerValue)
    IN  IF token = Undefined THEN NoUser
        ELSE IF jwtVerify(token) = "throws" THEN NoUser
        ELSE findUniqueUser(jwtVerify(token))

\* GET /finance/accounts
listAccounts(store, caller) ==
    IF caller = NoUser THEN Result(store, Unauthorized("accounts"))
    ELSE Result(store, Respond("accounts", 200, "", getAccounts(store, caller), TRUE))

ListAccounts(caller) ==
    \E result \in {listAccounts(Store, caller)} :
        /\ accounts' = result.store.accounts
        /\ transactions' = result.store.transactions
        /\ rules' = result.store.rules
        /\ response' = result.response
        /\ UNCHANGED <<inflight, clientVars, authVars, toastVars>>

NextAuth ==
    \/ \E header \in Headers : ListAccounts(attachUser(header))
    \/ \E header \in Headers : \E body \in ConcurrentAccountBodies :
           CreateAccount(attachUser(header), body)
    \/ \E header \in Headers : \E body \in ConcurrentTransactionBodies :
           CreateTransaction(attachUser(header), body)
    \/ \E header \in Headers : \E body \in ConcurrentRuleBodies :
           CreateRule(attachUser(header), body)
    \/ \E header \in Headers : \E body \in ConcurrentForecastBodies :
           Forecast(attachUser(header), body)

SpecAuth == Init /\ [][NextAuth]_vars

(***************************************************************************)
(* POST /auth/register (routes/auth.ts).  The handler awaits three times:  *)
(* prisma.user.findUnique, bcrypt.hash and prisma.user.create, so requests *)
(* under way at the same time interleave at those points.  Each database   *)
(* call is one atomic step; the User table carries the unique index        *)
(* User_email_key.                                                         *)
(***************************************************************************)
Emails == {"ann@example.com", "bob@example.com"}
RegisterBody(email, passwordLen, displayNameLen) ==
    [email |-> email, passwordLen |-> passwordLen, displayNameLen |-> displayNameLen]
RegisterBodies ==
    {RegisterBody(e, 8, 2) : e \in Emails}
        \cup {RegisterBody("not-an-email", 8, 2),
              RegisterBody("ann@example.com", 7, 2),
              RegisterBody("ann@example.com", 8, 1)}

\* registerSchema
registerSchemaAccepts(body) ==
    /\ body.email \in Emails
    /\ body.passwordLen >= 8
    /\ body.displayNameLen >= 2

\* prisma.user.findUnique({ where: { email } })
findUniqueByEmail(table, email) ==
    \E i \in 1 .. Len(table) : table[i].email = email

\* The unique index on User.email: an insert of a present email fails.
uniqueIndexAllows(table, email) == ~findUniqueByEmail(table, email)

Answered(registration, status, message, token) ==
    [registration EXCEPT !.phase = "done", !.status = status,
                         !.message = message, !.token = token]

\* The request arrives: registerSchema.parse, then the handler awaits
\* findUnique.  A ZodError goes through next(error) to errorHandler.
Register(r, body) ==
    /\ registrations[r].phase \in {"idle", "done"}
    /\ registrations' =
           [registrations EXCEPT ![r] =
               IF registerSchemaAccepts(body)
               THEN [IdleRegistration EXCEPT !.phase = "finding", !.email = body.email]
               ELSE Answered([IdleRegistration EXCEPT !.email = body.email],
                             400, "Validation failed", FALSE)]
    /\ UNCHANGED <<users, serverVars, clientVars, toastVars>>

\* findUnique resolves: 409 when a user has the email, else the handler
\* awaits bcrypt.hash.
FindUnique(r) ==
    /\ registrations[r].phase = "finding"
    /\ registrations' =
           [registrations EXCEPT ![r] =
               IF findUniqueByEmail(users, registrations[r].email)
               THEN Answered(@, 409, "Email already registered", FALSE)
               ELSE [@ EXCEPT !.phase = "hashing"]]
    /\ UNCHANGED <<users, serverVars, clientVars, toastVars>>

\* bcrypt.hash resolves and the handler awaits prisma.user.create.
Hash(r) ==
    /\ registrations[r].phase = "hashing"
    /\ registrations' = [registrations EXCEPT ![r].phase = "creating"]
    /\ UNCHANGED <<users, serverVars, clientVars, toastVars>>

\* create resolves with the new row, answered 201 with a signed token, or
\* rejects on the unique index: the catch hands the error to errorHandler,
\* which answers 500 with the error's message.
Create(r) ==
    /\ registrations[r].phase = "creating"
    /\ Len(users) < MaxRows
    /\ IF uniqueIndexAllows(users, registrations[r].email)
       THEN /\ users' = Append(users, [id |-> Len(users) + 1,
                                       email |-> registrations[r].email])
            /\ registrations' =
                   [registrations EXCEPT ![r] = Answered(@, 201, "", TRUE)]
       ELSE /\ users' = users
            /\ registrations' =
                   [registrations EXCEPT ![r] =
                       Answered(@, 500, "Unique constraint failed", FALSE)]
    /\ UNCHANGED <<serverVars, clientVars, toastVars>>

NextRegister ==
    \E r \in Registrations :
        \/ \E body \in RegisterBodies : Register(r, body)
        \/ FindUnique(r)
        \/ Hash(r)
        \/ Create(r)

SpecRegister == Init /\ [][NextRegister]_vars

(***************************************************************************)
(* ToastProvider: the toast list (useState), the timer map (useRef) and    *)
(* the timeouts pending in the runtime.  A timeout is the handle setTimeout *)
(* returned and the id its callback dismisses.                             *)
(***************************************************************************)
\* maxToasts = 3
maxToasts == 3

Min(a, b) == IF a < b THEN a ELSE b

Timeout(handle, id) == [handle |-> handle, id |-> id]
Provider == [toasts |-> toasts, timers |-> timers, scheduled |-> scheduled]

\* setTimeout returns a handle no pending timeout has.
setTimeout(pending) ==
    CHOOSE handle \in Handles :
        /\ \A t \in pending : t.handle # handle
        /\ \A lower \in 1 .. handle - 1 : \E t \in pending : t.handle = lower

clearTimeout(pending, handle) == {t \in pending : t.handle # handle}

\* prev.filter((toast) => toast.id !== id)
filter(list, id) == SelectSeq(list, LAMBDA toast : toast.id # id)

\* dismiss(id)
dismiss(state, id) ==
    [toasts |-> filter(state.toasts, id),
     timers |-> [state.timers EXCEPT ![id] = NoHandle],
     scheduled |-> IF state.timers[id] # NoHandle
                   THEN clearTimeout(state.scheduled, state.timers[id])
                   ELSE state.scheduled]

\* clear()
clear(state) ==
    [toasts |-> <<>>,
     timers |-> NoTimers,
     scheduled |-> {t \in state.scheduled :
                       \A id \in ToastIds : state.timers[id] # t.handle}]

\* Mutant: show keeps every toast.
showKeepsAll(state, id) ==
    [toasts |-> <<[id |-> id]>> \o state.toasts,
     timers |-> [state.timers EXCEPT ![id] = setTimeout(state.scheduled)],
     scheduled |-> state.scheduled
                       \cup {Timeout(setTimeout(state.scheduled), id)}]

\* show(toast): [{ ...toast, id }, ...prev].slice(0, maxToasts), then
\* setTimeout and timers.current.set(id, timer).
show(state, id) ==
    [toasts |-> SubSeq(<<[id |-> id]>> \o state.toasts, 1,
                       Min(maxToasts, Len(state.toasts) + 1)),
     timers |-> [state.timers EXCEPT ![id] = setTimeout(state.scheduled)],
     scheduled |-> state.scheduled
                       \cup {Timeout(setTimeout(state.scheduled), id)}]

Becomes(state) ==
    /\ toasts' = state.toasts
    /\ timers' = state.timers
    /\ scheduled' = state.scheduled

Show(id) ==
    /\ provider = "mounted"
    /\ Cardinality(scheduled) < MaxTimers
    /\ Becomes(show(Provider, id))
    /\ UNCHANGED <<provider, serverVars, clientVars, authVars>>

Dismiss(id) ==
    /\ provider = "mounted"
    /\ Becomes(dismiss(Provider, id))
    /\ UNCHANGED <<provider, serverVars, clientVars, authVars>>

Clear ==
    /\ provider = "mounted"
    /\ Becomes(clear(Provider))
    /\ UNCHANGED <<provider, serverVars, clientVars, authVars>>

\* A pending timeout fires and runs dismiss(id), also after the provider is
\* unmounted.
Expire(timeout) ==
    /\ timeout \in scheduled
    /\ Becomes(dismiss([Provider EXCEPT !.scheduled = @ \ {timeout}], timeout.id))
    /\ UNCHANGED <<provider, serverVars, clientVars, authVars>>

\* The cleanup of the effect: clear().
UnmountProvider ==
    /\ provider = "mounted"
    /\ provider' = "unmounted"
    /\ Becomes(clear(Provider))
    /\ UNCHANGED <<serverVars, clientVars, authVars>>

NextToasts ==
    \/ \E id \in ToastIds : Show(id)
    \/ \E id \in ToastIds : Dismiss(id)
    \/ Clear
    \/ \E handle \in Handles : \E id \in ToastIds : Expire(Timeout(handle, id))
    \/ UnmountProvider

SpecToasts == Init /\ [][NextToasts]_vars

\* Every pending timeout fires at some time.
TimersFire ==
    \A handle \in Handles : \A id \in ToastIds :
        WF_vars(Expire(Timeout(handle, id)))

SpecToastsFair == SpecToasts /\ TimersFire

(***************************************************************************)
(* Properties.  The sums below are taken over index sets of the tables,    *)
(* independently of the reduce loops of the handler.                       *)
(***************************************************************************)
ForecastAnswered == response.endpoint = "forecast" /\ response.status = 200

\* The indices of the stored transactions and rules of an account.
TransactionsOf(id) == {k \in 1 .. Len(transactions) : transactions[k].accountId = id}
RulesOf(id) == {k \in 1 .. Len(rules) : rules[k].accountId = id}
ActiveRulesOf(id) == {k \in RulesOf(id) : rules[k].active}

RECURSIVE SumOfAmounts(_)
SumOfAmounts(K) ==
    IF K = {} THEN Zero
    ELSE LET k == CHOOSE x \in K : TRUE
         IN  RAdd(transactions[k].amount, SumOfAmounts(K \ {k}))

RECURSIVE SumOfAccruals(_, _)
SumOfAccruals(K, balance) ==
    IF K = {} THEN Zero
    ELSE LET k == CHOOSE x \in K : TRUE
         IN  RAdd(RMul(balance, rules[k].percentage), SumOfAccruals(K \ {k}, balance))

PositiveOf(id) == {k \in TransactionsOf(id) : transactions[k].amount.n > 0}
NegativeOf(id) == {k \in TransactionsOf(id) : transactions[k].amount.n < 0}

\* (sum of positive amounts + sum of negative amounts) / max(count, 1)
NetOf(id) ==
    RDiv(RAdd(SumOfAmounts(PositiveOf(id)), SumOfAmounts(NegativeOf(id))),
         Num(IF Cardinality(TransactionsOf(id)) > 1
             THEN Cardinality(TransactionsOf(id)) ELSE 1))

\* balance + net * H - sum over the active rules of balance * percentage
ProjectedOf(id, H) ==
    RSub(RAdd(accounts[id].balance, RMul(NetOf(id), H)),
         SumOfAccruals(ActiveRulesOf(id), accounts[id].balance))

\* The horizons the forecast requests of the model are accepted with.
AcceptedHorizons == {Num(1), Num(30), Num(180)}

\* The rows a user is answered for a horizon, in a store.
RowsFor(store, user, H) ==
    postForecast(store, user, [horizonDays |-> JNum(H)]).response.rows

\* C1: every row of a forecast response has projected = balance +
\* ((sum of positive amounts + sum of negative amounts) / max(count, 1)) * H
\* - autopilot, autopilot being the sum of balance * percentage over the
\* account's active rules.
C1_ProjectedFormula ==
    ForecastAnswered =>
        \A i \in 1 .. Len(response.rows) :
            LET row == response.rows[i]
            IN  row.projected = ProjectedOf(row.accountId, row.horizonDays)

C1_Witness ==
    /\ ForecastAnswered
    /\ \E i \in 1 .. Len(response.rows) :
           LET id == response.rows[i].accountId
           IN  /\ TransactionsOf(id) # {}
               /\ \E k \in ActiveRulesOf(id) : rules[k].percentage.n > 0
               /\ response.rows[i].horizonDays = Num(180)

\* Is the JSON value an integer h with 1 <= h <= 180?
IntegerFrom1To180(j) ==
    j.k = "number" /\ j.v.d = 1 /\ j.v.n >= 1 /\ j.v.n <= 180

\* C2: in every state a forecast request is accepted exactly when horizonDays
\* is absent or an integer from 1 to 180; any other value is answered 400
\* "Validation failed" with no row and before the accounts are read, and an
\* accepted value is used as given, never clamped.
C2_HorizonValidation ==
    \A caller \in Users, body \in ForecastBodies :
        \A answer \in {postForecast(Store, caller, body).response} :
            LET j == body.horizonDays
            IN  IF j.k = "absent" \/ IntegerFrom1To180(j)
                THEN /\ answer.status = 200
                     /\ answer.queried
                     /\ \A i \in 1 .. Len(answer.rows) :
                            j.k = "number" => answer.rows[i].horizonDays = j.v
                ELSE /\ answer.status = 400
                     /\ answer.message = "Validation failed"
                     /\ answer.rows = <<>>
                     /\ ~answer.queried

C2_Witness ==
    /\ response.endpoint = "forecast"
    /\ response.status = 400
    /\ ~response.queried
    /\ \E id \in 1 .. Len(accounts) : TransactionsOf(id) # {}

\* C3: a forecast request without horizonDays is accepted, and every row has
\* horizonDays = 30 and the projected value of the formula with H = 30.
C3_DefaultHorizon ==
    \A caller \in Users :
        LET answer == postForecast(Store, caller, [horizonDays |-> JAbsent]).response
        IN  /\ answer.status = 200
            /\ Len(answer.rows) =
                   Cardinality({id \in 1 .. Len(accounts) : accounts[id].ownerId = caller})
            /\ \A i \in 1 .. Len(answer.rows) :
                   /\ answer.rows[i].horizonDays = Num(30)
                   /\ answer.rows[i].projected =
                          ProjectedOf(answer.rows[i].accountId, Num(30))

C3_Witness ==
    /\ ForecastAnswered
    /\ \E i \in 1 .. Len(response.rows) :
           /\ response.rows[i].horizonDays = Num(30)
           /\ TransactionsOf(response.rows[i].accountId) # {}

\* C4 (P1): a forecast row of an account with balance B, no transactions and
\* no active rules has projected = B, whatever the accepted horizon.
C4_NoTransactionsNoRules ==
    ForecastAnswered =>
        \A i \in 1 .. Len(response.rows) :
            LET row == response.rows[i]
            IN  (TransactionsOf(row.accountId) = {} /\ ActiveRulesOf(row.accountId) = {})
                    => row.projected = accounts[row.accountId].balance

C4_Witness ==
    /\ ForecastAnswered
    /\ \E i \in 1 .. Len(response.rows) :
           LET row == response.rows[i]
           IN  /\ TransactionsOf(row.accountId) = {}
               /\ ActiveRulesOf(row.accountId) = {}
               /\ RulesOf(row.accountId) # {}
               /\ row.horizonDays = Num(180)
               /\ row.balance.n > 0

\* Has the last request stored a rule?  The rule is then the one row of the
\* response and the last row of the AutopilotRule table.
RuleStored == response.endpoint = "autopilot-rules" /\ response.status = 201

\* Has the last request stored a rule of an account?
RuleStoredOnAccount == RuleStored /\ response.rows[1].accountId # NoAccount

\* The store as it was before the last stored rule was appended.
BeforeRule == [Store EXCEPT !.rules = SubSeq(@, 1, Len(@) - 1)]

\* The projected value of a stored account's forecast row in a store.
ProjectedIn(store, id, H) == ForecastRow(include(store, accounts[id]), H).projected

\* C5 as stated (P3): storing an active rule with percentage p > 0 on an
\* account strictly decreases the account's projected value, by exactly
\* balance * p, for every accepted horizon and every balance the API allows.
C5_StrictDecrease ==
    (RuleStoredOnAccount /\ response.rows[1].active /\ response.rows[1].percentage.n > 0) =>
        LET rule == response.rows[1]
            id == rule.accountId
        IN  \A H \in AcceptedHorizons :
                LET before == ProjectedIn(BeforeRule, id, H)
                    after == ProjectedIn(Store, id, H)
                IN  /\ RLt(after, before)
                    /\ RSub(before, after) =
                           RMul(accounts[id].balance, rule.percentage)

\* C5 as amended: storing an active rule with percentage p > 0 on an account
\* lowers the account's projected value by exactly balance * p, for every
\* accepted horizon; the decrease is strict exactly when the balance is
\* positive.
C5_DecreaseByBalanceTimesP ==
    (RuleStoredOnAccount /\ response.rows[1].active /\ response.rows[1].percentage.n > 0) =>
        LET rule == response.rows[1]
            id == rule.accountId
        IN  /\ rules[Len(rules)] = rule
            /\ \A H \in AcceptedHorizons :
                   LET before == ProjectedIn(BeforeRule, id, H)
                       after == ProjectedIn(Store, id, H)
                   IN  /\ RSub(before, after) =
                              RMul(accounts[id].balance, rule.percentage)
                       /\ RLt(after, before) <=> (accounts[id].balance.n > 0)

C5_Witness ==
    /\ RuleStoredOnAccount
    /\ response.rows[1].active
    /\ response.rows[1].percentage.n > 0
    /\ accounts[response.rows[1].accountId].balance.n > 0
    /\ TransactionsOf(response.rows[1].accountId) # {}

\* The loaded account with one more rule at the end of its rule list.
WithRule(account, percentage, active) ==
    [account EXCEPT !.autopilotRules =
        Append(@, [accountId |-> account.id, percentage |-> percentage,
                   active |-> active])]

\* The loaded account without the k-th rule of its rule list.
WithoutRule(account, k) ==
    [account EXCEPT !.autopilotRules =
        SubSeq(@, 1, k - 1) \o SubSeq(@, k + 1, Len(@))]

\* The loaded account with the percentage of its k-th rule changed.
WithPercentage(account, k, percentage) ==
    [account EXCEPT !.autopilotRules[k].percentage = percentage]

\* C6 (P4): an inactive rule contributes nothing.  Storing an inactive rule
\* leaves every forecast row of every user as it was, and the row of a
\* forecast response is the one computed with an inactive rule of any
\* percentage added, with an inactive rule removed, and with the percentage
\* of an inactive rule changed.
C6_InactiveRulesInert ==
    /\ (RuleStored /\ ~response.rows[1].active) =>
           \A user \in Users, H \in AcceptedHorizons :
               RowsFor(Store, user, H) = RowsFor(BeforeRule, user, H)
    /\ ForecastAnswered =>
           \A i \in 1 .. Len(response.rows) :
               LET row == response.rows[i]
                   loaded == include(Store, accounts[row.accountId])
                   H == row.horizonDays
               IN  \A p \in Percentages :
                       /\ ForecastRow(WithRule(loaded, p, FALSE), H) = row
                       /\ \A k \in 1 .. Len(loaded.autopilotRules) :
                              ~loaded.autopilotRules[k].active =>
                                  /\ ForecastRow(WithoutRule(loaded, k), H) = row
                                  /\ ForecastRow(WithPercentage(loaded, k, p), H) = row

C6_Witness ==
    /\ RuleStoredOnAccount
    /\ ~response.rows[1].active
    /\ response.rows[1].percentage.n > 0
    /\ accounts[response.rows[1].accountId].balance.n > 0
    /\ ActiveRulesOf(response.rows[1].accountId) # {}

\* C7 (P5): for one store, the rows a user is answered for two accepted
\* horizons H1 and H2 satisfy projected(H2) - projected(H1) =
\* netPerTransaction * (H2 - H1) and report the same autopilot.
C7_LinearInHorizon ==
    (ForecastAnswered /\ response.rows # <<>>) =>
        LET user == accounts[response.rows[1].accountId].ownerId
        IN  \A H2 \in AcceptedHorizons :
                \A rows2 \in {RowsFor(Store, user, H2)} :
                    /\ Len(rows2) = Len(response.rows)
                    /\ \A i \in 1 .. Len(rows2) :
                           LET row1 == response.rows[i]
                           IN  /\ rows2[i].accountId = row1.accountId
                               /\ RSub(rows2[i].projected, row1.projected) =
                                      RMul(NetOf(row1.accountId),
                                           RSub(H2, row1.horizonDays))
                               /\ rows2[i].autopilot = row1.autopilot

C7_Witness ==
    /\ ForecastAnswered
    /\ \E i \in 1 .. Len(response.rows) :
           LET id == response.rows[i].accountId
           IN  /\ NetOf(id).n < 0
               /\ response.rows[i].autopilot.n # 0
               /\ response.rows[i].horizonDays = Num(1)

\* The amounts of an account's transactions, in table order.
AmountsOf(id) ==
    LET list == SelectSeq(transactions, LAMBDA t : t.accountId = id)
    IN  [k \in 1 .. Len(list) |-> list[k].amount]

\* C8 (P6): for balance 4200.32, transactions [+2400, -950], horizon 30 and no
\* active rules, netPerTransaction is 725 and projected is 25950.32, that is
\* 2595032 cents.
C8_SeedScenario ==
    ForecastAnswered =>
        \A i \in 1 .. Len(response.rows) :
            LET row == response.rows[i]
                id == row.accountId
            IN  (/\ accounts[id].balance = Rat(420032, 100)
                 /\ AmountsOf(id) = <<Num(2400), Num(-950)>>
                 /\ ActiveRulesOf(id) = {}
                 /\ row.horizonDays = Num(30))
                => /\ netPerTransaction(include(Store, accounts[id])) = Num(725)
                   /\ RMul(row.projected, Num(100)) = Num(2595032)

C8_Witness ==
    /\ ForecastAnswered
    /\ \E i \in 1 .. Len(response.rows) :
           LET id == response.rows[i].accountId
           IN  /\ accounts[id].balance = Rat(420032, 100)
               /\ AmountsOf(id) = <<Num(2400), Num(-950)>>
               /\ ActiveRulesOf(id) = {}
               /\ response.rows[i].horizonDays = Num(30)

\* C9: in every state reached through the API the autopilot value of every
\* forecast row is the sum of balance * percentage over the account's active
\* rules, and it is never negative.
C9_AutopilotNeverNegative ==
    ForecastAnswered =>
        \A i \in 1 .. Len(response.rows) :
            LET row == response.rows[i]
            IN  /\ row.autopilot =
                       SumOfAccruals(ActiveRulesOf(row.accountId),
                                     accounts[row.accountId].balance)
                /\ row.autopilot.n >= 0

\* C10: every rule the rule-creation endpoint stores has a percentage p with
\* 0 < p <= 1: no request with p <= 0 or p > 1 is answered 201, and every
\* stored rule is in range.
C10_PercentageRange ==
    /\ \A k \in 1 .. Len(rules) :
           RLt(Zero, rules[k].percentage) /\ RLe(rules[k].percentage, Num(1))
    /\ (response.endpoint = "autopilot-rules" /\ response.status = 201) =>
           /\ RLt(Zero, response.rows[1].percentage)
           /\ RLe(response.rows[1].percentage, Num(1))

\* C11: an accepted forecast request returns exactly one row for each account
\* the caller owns and no row for an account of another user.
C11_OwnRowsOnly ==
    \A caller \in Users :
        \A rows \in {RowsFor(Store, caller, Num(DefaultHorizon))} :
            /\ \A i \in 1 .. Len(rows) :
                   /\ rows[i].accountId \in 1 .. Len(accounts)
                   /\ accounts[rows[i].accountId].ownerId = caller
            /\ \A id \in 1 .. Len(accounts) :
                   accounts[id].ownerId = caller =>
                       Cardinality({i \in 1 .. Len(rows) : rows[i].accountId = id}) = 1

C11_Witness ==
    /\ ForecastAnswered
    /\ Len(response.rows) = 2
    /\ \E id \in 1 .. Len(accounts) :
           accounts[id].ownerId # accounts[response.rows[1].accountId].ownerId

\* C12: a forecast request, accepted or rejected, leaves the accounts with
\* their balances, the transactions and the rules as they were.
C12_ForecastWritesNothing ==
    [][response'.endpoint = "forecast" =>
           /\ accounts' = accounts
           /\ transactions' = transactions
           /\ rules' = rules]_vars

C12_Witness ==
    /\ ForecastAnswered
    /\ response.rows # <<>>
    /\ transactions # <<>>
    /\ rules # <<>>

\* C13: in every forecast row accountId names the account, balance is the
\* account's stored balance, horizonDays is the requested horizon, and
\* autopilot is the accrual subtracted in projected: projected + autopilot =
\* balance + net * horizonDays.
C13_RowFields ==
    \A caller \in Users, H \in {Num(1), Num(MaxHorizon)} :
        \A rows \in {RowsFor(Store, caller, H)} :
            \A i \in 1 .. Len(rows) :
                LET id == rows[i].accountId
                IN  /\ id \in 1 .. Len(accounts)
                    /\ accounts[id].id = id
                    /\ rows[i].balance = accounts[id].balance
                    /\ rows[i].horizonDays = H
                    /\ rows[i].autopilot =
                           SumOfAccruals(ActiveRulesOf(id), accounts[id].balance)
                    /\ RAdd(rows[i].projected, rows[i].autopilot) =
                           RAdd(accounts[id].balance, RMul(NetOf(id), H))

C13_Witness ==
    /\ ForecastAnswered
    /\ \E i \in 1 .. Len(response.rows) :
           /\ response.rows[i].autopilot.n > 0
           /\ response.rows[i].projected # response.rows[i].balance
           /\ TransactionsOf(response.rows[i].accountId) # {}

\* C14: an account without transactions or without active rules is answered
\* like any other: the request succeeds with a row for the account, without
\* transactions projected = balance - autopilot, and without active rules
\* autopilot = 0.
C14_DegenerateInputsTolerated ==
    \A id \in 1 .. Len(accounts) :
        (TransactionsOf(id) = {} \/ ActiveRulesOf(id) = {}) =>
            \A answer \in {postForecast(Store, accounts[id].ownerId,
                                        [horizonDays |-> JNum(Num(MaxHorizon))]).response} :
                /\ answer.status = 200
                /\ \E i \in 1 .. Len(answer.rows) :
                       LET row == answer.rows[i]
                       IN  /\ row.accountId = id
                           /\ TransactionsOf(id) = {} =>
                                  row.projected = RSub(accounts[id].balance, row.autopilot)
                           /\ ActiveRulesOf(id) = {} => row.autopilot = Zero

C14_Witness ==
    /\ ForecastAnswered
    /\ \E i \in 1 .. Len(response.rows), j \in 1 .. Len(response.rows) :
           /\ TransactionsOf(response.rows[i].accountId) = {}
           /\ response.rows[i].autopilot.n > 0
           /\ ActiveRulesOf(response.rows[j].accountId) = {}
           /\ TransactionsOf(response.rows[j].accountId) = {}

\* The list with its k-th and (k+1)-th elements exchanged.
Swap(list, k) ==
    [i \in 1 .. Len(list) |->
        IF i = k THEN list[k + 1] ELSE IF i = k + 1 THEN list[k] ELSE list[i]]

StoreAt(lens) ==
    [accounts |-> SubSeq(accounts, 1, lens[1]),
     transactions |-> SubSeq(transactions, 1, lens[2]),
     rules |-> SubSeq(rules, 1, lens[3])]

\* C16: whatever requests run between the steps of a forecast request, the
\* rows it answers are the forecast formula applied, for its caller and its
\* horizon, to the tables as they were at one moment between its start and its
\* answer; the steps of other forecast requests write nothing, so the moment
\* and the answer do not depend on them.
C16_AnswerFromOneMoment ==
    \A slot \in Slots :
        inflight[slot].phase = "answered" =>
            \E lens \in inflight[slot].seen :
                inflight[slot].rows =
                    forecast(findManyAccounts(StoreAt(lens), inflight[slot].caller),
                             inflight[slot].horizonDays)

\* A request answered with a non-empty forecast after the tables changed
\* twice while it was served, the other request being served at the same time.
C16_Witness ==
    \E slot \in Slots : \E other \in Slots \ {slot} :
        /\ inflight[slot].phase = "answered"
        /\ Cardinality(inflight[slot].seen) >= 3
        /\ Len(inflight[slot].rows) >= 1
        /\ inflight[other].phase \in {"waiting", "loaded"}
        /\ inflight[other].caller = inflight[slot].caller
        /\ Lens(Store) \in inflight[slot].seen


\* The sum of the autopilot fields of forecast rows.
RECURSIVE SumOfAutopilot(_)
SumOfAutopilot(rows) ==
    IF rows = <<>> THEN Zero
    ELSE RAdd(rows[1].autopilot, SumOfAutopilot(Tail(rows)))

\* C17: for the same stored accounts, the autopilot total the dashboard shows
\* on an account's card equals the autopilot of that account's forecast row,
\* and "Autopilot queued" equals the sum of the autopilot of all the rows.
C17_DashboardTotalsMatchForecast ==
    \A caller \in Users :
        \A shown \in {getAccounts(Store, caller)} :
            \A rows \in {RowsFor(Store, caller, Num(DefaultHorizon))} :
                /\ \A i \in 1 .. Len(shown) :
                       \E j \in 1 .. Len(rows) :
                           /\ rows[j].accountId = shown[i].id
                           /\ rows[j].autopilot = autopilotTotal(shown[i])
                /\ autopilotQueued(shown) = SumOfAutopilot(rows)

\* A forecast answered for an account with a non-zero autopilot that also has
\* a paused rule with a positive percentage.
C17_Witness ==
    /\ ForecastAnswered
    /\ \E i \in 1 .. Len(response.rows) :
           /\ response.rows[i].autopilot # Zero
           /\ \E k \in RulesOf(response.rows[i].accountId) :
                  ~rules[k].active /\ rules[k].percentage.n > 0


RECURSIVE SumOfPercentages(_)
SumOfPercentages(K) ==
    IF K = {} THEN Zero
    ELSE LET k == CHOOSE x \in K : TRUE
         IN  RAdd(rules[k].percentage, SumOfPercentages(K \ {k}))

\* The accounts with a positive balance whose active percentages exceed 1.
Overcommitted ==
    {id \in 1 .. Len(accounts) :
        /\ accounts[id].balance.n > 0
        /\ RLt(Num(1), SumOfPercentages(ActiveRulesOf(id)))}

\* C18: rule creation accepts rules whose active percentages sum to more than
\* 1 on one account, and the forecast of such an account with a positive
\* balance succeeds with autopilot greater than the balance and, when the
\* account has no transactions, a negative projected.
C18_OvercommittedForecast ==
    \A id \in Overcommitted :
        \A answer \in {postForecast(Store, accounts[id].ownerId,
                                    [horizonDays |-> JAbsent]).response} :
            /\ answer.status = 200
            /\ \E i \in 1 .. Len(answer.rows) :
                   /\ answer.rows[i].accountId = id
                   /\ RLt(answer.rows[i].balance, answer.rows[i].autopilot)
                   /\ TransactionsOf(id) = {} => answer.rows[i].projected.n < 0

\* A forecast answered for an account made overcommitted by two accepted
\* rule creations.
C18_Witness ==
    /\ ForecastAnswered
    /\ \E i \in 1 .. Len(response.rows) :
           /\ response.rows[i].accountId \in Overcommitted
           /\ Cardinality(ActiveRulesOf(response.rows[i].accountId)) >= 2
           /\ response.rows[i].projected.n < 0


\* The stores that differ from the current one in one account only: its
\* balance, its currency, its transactions or its rules.
ChangesOf(other) ==
    {[Store EXCEPT !.accounts[other].balance = b] : b \in Balances \cup {Zero}}
        \cup {[Store EXCEPT !.accounts[other].currencyLen = 10]}
        \cup {[Store EXCEPT !.transactions =
                  SelectSeq(@, LAMBDA t : t.accountId # other)],
              [Store EXCEPT !.rules = SelectSeq(@, LAMBDA r : r.accountId # other)]}
        \cup {[Store EXCEPT !.transactions =
                  Append(@, [accountId |-> other, amount |-> a])] : a \in Amounts}
        \cup {[Store EXCEPT !.rules =
                  Append(@, [accountId |-> other, percentage |-> p,
                             active |-> TRUE])] :
                 p \in {q \in Percentages : RLe(Zero, q) /\ RLe(q, Num(1))}}

\* C19: a forecast row depends on its own account and on the horizon only.
\* Had the balance, the currency, the transactions or the rules of another
\* account of the caller been different, every other row of the response
\* would be the same; in particular no row holds an amount summed over, or
\* converted between, accounts.
C19_RowsIndependent ==
    ForecastAnswered =>
        \A i \in 1 .. Len(response.rows) :
            \A j \in 1 .. Len(response.rows) :
                i # j =>
                    LET other == response.rows[j].accountId
                        caller == accounts[other].ownerId
                        H == response.rows[i].horizonDays
                    IN  \A changed \in ChangesOf(other) :
                            \A rows \in {RowsFor(changed, caller, H)} :
                                /\ Len(rows) = Len(response.rows)
                                /\ rows[i] = response.rows[i]

\* A forecast answered with rows for two accounts, one of which has a
\* transaction or a rule.
C19_Witness ==
    /\ ForecastAnswered
    /\ Len(response.rows) >= 2
    /\ \E i \in 1 .. Len(response.rows) :
           TransactionsOf(response.rows[i].accountId) \cup
               RulesOf(response.rows[i].accountId) # {}


\* The step empties the cache: clearApiCache() ran.
Cleared == responseCache' = EmptyCache

\* The step is the completion of a fetch of some hook that stores under k.
StoredBy(k) ==
    \E h \in Hooks :
        /\ hooks[h].pending /\ hooks[h].writes /\ hooks[h].key = k
        /\ ~hooks'[h].pending

\* The step starts a fetch that will store under k.
StartedFor(k) ==
    \E h \in Hooks :
        /\ hooks'[h].pending /\ hooks'[h].writes /\ hooks'[h].key = k
        /\ ~hooks[h].pending \/ hooks'[h].controller # hooks[h].controller

\* C20 as stated: an entry of the response cache keeps its value over every
\* step of the hooks; it disappears only when the whole cache is emptied.
C20_EntriesKeepTheirValue ==
    [][\A k \in Keys :
          responseCache[k] # Undefined =>
              (responseCache'[k] = responseCache[k] \/ Cleared)]_vars

\* C20 as amended: an entry of the response cache stays in the cache over
\* every execution, mount and unmount of the hooks, and entries disappear
\* only when clearApiCache() empties the whole cache; the value of an entry
\* is replaced only by the completion of a GET for the same key that began
\* while the key was not in the cache, since no fetch that stores under a key
\* begins while the key is in the cache.
C20_EntriesStayUntilCleared ==
    [][\A k \in Keys :
          responseCache[k] # Undefined =>
              /\ responseCache'[k] # Undefined \/ Cleared
              /\ responseCache'[k] # responseCache[k] => (StoredBy(k) \/ Cleared)
              /\ ~StartedFor(k)]_vars

\* An entry whose value was replaced: a hook shows the value it stored under
\* its key, the cache now holds another value for that key, and a third
\* execution has been served from the cache.
C20_Witness ==
    \E h \in Hooks : \E other \in Hooks \ {h} :
        /\ hooks[h].status = "success" /\ hooks[h].config = Config("GET", "k1", FALSE)
        /\ ~hooks[h].pending
        /\ hooks[h].data # Undefined
        /\ responseCache["k1"] \notin {Undefined, hooks[h].data}
        /\ hooks[other].data = responseCache["k1"]
        /\ hooks[other].status = "success"


\* C21: a cache hit does not look at the token.  Whatever token a mounted
\* component is rendered with (another user's, or none after logout), its GET
\* execution for a key that is in the cache dispatches the cached response as
\* success and issues no request.
C21_HitIgnoresToken ==
    \A h \in Hooks :
        hooks[h].mounted =>
            \A config \in TokenConfigs :
                responseCache[keyOf(config)] # Undefined =>
                    \A after \in {execute(responseCache,
                                          [hooks[h] EXCEPT !.config = config],
                                          NoOverride, AbortError)} :
                        /\ after.status = "success"
                        /\ after.data = responseCache[keyOf(config)]
                        /\ after.pending = hooks[h].pending
                        /\ after.controller = hooks[h].controller

\* A component rendered with the token of one user, or with no token, shows
\* the accounts fetched with the token of the other user, and has no request
\* in flight.
C21_Witness ==
    \E h \in Hooks :
        /\ hooks[h].mounted /\ ~hooks[h].pending
        /\ hooks[h].status = "success"
        /\ hooks[h].config.token # "t1"
        /\ hooks[h].data = BodyFor("t1")


\* The tables after the step.
StoreAfter == [accounts |-> accounts', transactions |-> transactions', rules |-> rules']

\* The step is a request of the caller to one of the finance endpoints.
RequestBy(caller) ==
    \/ \E body \in AccountBodies : CreateAccount(caller, body)
    \/ \E body \in TransactionBodies : CreateTransaction(caller, body)
    \/ \E body \in RuleBodies : CreateRule(caller, body)
    \/ \E body \in ForecastBodies : Forecast(caller, body)

\* C22: whatever a user does, creating rules that name another user's
\* account included, the forecast rows every other user is answered stay as
\* they were.
C22_OtherUsersInert ==
    [][\A caller \in Users :
          RequestBy(caller) =>
              \A user \in Users \ {caller} :
                  RowsFor(StoreAfter, user, Num(DefaultHorizon)) =
                      RowsFor(Store, user, Num(DefaultHorizon))]_vars


\* C23: a valid POST /transactions whose accountId names no account, or an
\* account of another user, is answered 404 'Account not found' and stores
\* nothing; one that is answered 201 appends a single transaction, attached
\* to an account owned by the user who posted it.
C23_TransactionsOnOwnAccountsOnly ==
    \A caller \in Users :
        \A body \in {b \in TransactionBodies : transactionSchema(b)} :
            \A result \in {postTransactions(Store, caller, body)} :
                LET owned == /\ body.accountId \in 1 .. Len(accounts)
                             /\ accounts[body.accountId].ownerId = caller
                IN  /\ ~owned =>
                           /\ result.response.status = 404
                           /\ result.response.message = "Account not found"
                           /\ result.store = Store
                    /\ owned =>
                           /\ result.response.status = 201
                           /\ result.store.accounts = accounts
                           /\ result.store.rules = rules
                           /\ Len(result.store.transactions) = Len(transactions) + 1
                           /\ SubSeq(result.store.transactions, 1, Len(transactions)) =
                                  transactions
                           /\ result.store.transactions[Len(transactions) + 1].accountId =
                                  body.accountId

\* A transaction request answered 404 while the account it names exists and
\* belongs to the other user, another transaction being stored already.
C23_Witness ==
    /\ response.endpoint = "transactions"
    /\ response.status = 404
    /\ transactions # <<>>
    /\ \A id \in AccountIdInputs : id \in 1 .. Len(accounts)
    /\ \E id \in 1 .. Len(accounts) : accounts[id].ownerId # accounts[1].ownerId


\* The headers that carry a bearer token that verifies and names a user.
AuthenticHeaders ==
    {Header("Bearer", "t1"), Header("Bearer", "t2"),
     Header("bearer", "t1"), Header("bearer", "t2")}

\* What each finance endpoint does with the request of the user attachUser
\* left on it, for every body of the model.
FinanceResults(caller) ==
    {listAccounts(Store, caller)}
        \cup {postAccounts(Store, caller, body) : body \in AccountBodies}
        \cup {postTransactions(Store, caller, body) : body \in TransactionBodies}
        \cup {postAutopilotRules(Store, caller, body) : body \in RuleBodies}
        \cup {postForecast(Store, caller, body) : body \in ForecastBodies}

\* C24: a request to any finance endpoint without a bearer token that
\* verifies and resolves to a user is answered 401 'Authentication
\* required' whatever its body, with no rows, without a query, and with the
\* tables left as they were.
C24_AuthenticationRequired ==
    \A header \in Headers \ AuthenticHeaders :
        \A result \in FinanceResults(attachUser(header)) :
            /\ result.response.status = 401
            /\ result.response.message = "Authentication required"
            /\ result.response.rows = <<>>
            /\ ~result.response.queried
            /\ result.store = Store

\* A request answered 401 while accounts, a transaction and a rule are stored.
C24_Witness ==
    /\ response.status = 401
    /\ response.rows = <<>>
    /\ accounts # <<>> /\ transactions # <<>> /\ rules # <<>>


\* C25: no request changes the balance of a stored account, and a step that
\* stores a transaction leaves, in every user's forecast, the balance and the
\* autopilot of every row as they were: only projected can move, through the
\* net-per-transaction term.
C25_BalancesConstant ==
    [][/\ \A id \in 1 .. Len(accounts) :
              /\ id <= Len(accounts')
              /\ accounts'[id].balance = accounts[id].balance
       /\ transactions' # transactions =>
              \A user \in Users :
                  \A before \in {RowsFor(Store, user, Num(DefaultHorizon))} :
                      \A after \in {RowsFor(StoreAfter, user, Num(DefaultHorizon))} :
                          /\ Len(after) = Len(before)
                          /\ \A i \in 1 .. Len(before) :
                                 /\ after[i].accountId = before[i].accountId
                                 /\ after[i].balance = before[i].balance
                                 /\ after[i].autopilot = before[i].autopilot
                                 /\ RAdd(after[i].projected, after[i].autopilot) =
                                        RAdd(after[i].balance,
                                             RMul(NetOf(after[i].accountId)',
                                                  Num(DefaultHorizon)))]_vars

\* A transaction stored on an account with a non-zero balance and an active
\* rule of positive percentage.
C25_Witness ==
    /\ response.endpoint = "transactions"
    /\ response.status = 201
    /\ accounts[response.rows[1].accountId].balance # Zero
    /\ \E k \in ActiveRulesOf(response.rows[1].accountId) : rules[k].percentage.n > 0

\* C26: whatever the interleaving of registrations of one email, no two
\* users share the email, at most one of the requests is answered 201 with
\* a token, and every other request that is answered is answered 409
\* 'Email already registered' (400 when its body fails registerSchema).
AnsweredFor(email) ==
    {r \in Registrations :
        registrations[r].phase = "done" /\ registrations[r].email = email}

C26_OneRegistrationPerEmail ==
    /\ \A i, j \in 1 .. Len(users) : users[i].email = users[j].email => i = j
    /\ \A email \in Emails :
           \A r \in AnsweredFor(email) :
               \/ /\ registrations[r].status = 201
                  /\ registrations[r].token
                  /\ \A other \in AnsweredFor(email) \ {r} :
                         registrations[other].status # 201
               \/ /\ registrations[r].status = 409
                  /\ registrations[r].message = "Email already registered"
               \/ /\ registrations[r].status = 400
                  /\ registrations[r].message = "Validation failed"

\* C26: two registrations of one email have both been answered, one of
\* them with 201.
C26_Witness ==
    \E r, other \in Registrations :
        /\ r # other
        /\ registrations[r].phase = "done"
        /\ registrations[other].phase = "done"
        /\ registrations[r].email = registrations[other].email
        /\ registrations[r].status = 201
        /\ registrations[other].status # 201


\* The hook starts a request while an earlier one of it is in flight.
Superseded(h) ==
    /\ hooks[h].mounted /\ hooks[h].pending
    /\ hooks'[h].pending /\ hooks'[h].controller # hooks[h].controller

\* The latest request of a mounted hook settles.
Settled(h) ==
    /\ hooks[h].mounted /\ hooks[h].pending
    /\ hooks'[h].mounted /\ ~hooks'[h].pending

ReducerState(hook) == <<hook.status, hook.data, hook.error, hook.timestamp>>

\* C27: when a hook starts a request while an earlier one is in flight, the
\* outcome of the earlier request is not dispatched (the hook is loading, with
\* the data it had); the state the latest request settles with is that
\* request's success or error; and no step changes the state of a hook that
\* is unmounted.
C27_AbortedOutcomeNeverDispatched ==
    [][\A h \in Hooks :
          /\ Superseded(h) =>
                 /\ hooks'[h].status = "loading"
                 /\ hooks'[h].error = Null
                 /\ hooks'[h].data = hooks[h].data
          /\ Settled(h) =>
                 \/ hooks'[h].status = "success" /\ hooks'[h].data \in Values
                 \/ /\ hooks'[h].status = "error"
                    /\ hooks'[h].error = RequestFailed
                    /\ hooks'[h].data = hooks[h].data
          /\ (~hooks[h].mounted /\ ~hooks'[h].mounted) =>
                 ReducerState(hooks'[h]) = ReducerState(hooks[h])]_vars

\* C27: a mounted hook shows an error while its latest request is in flight.
C27_Witness ==
    \E h \in Hooks :
        /\ hooks[h].mounted /\ hooks[h].pending
        /\ hooks[h].status = "error"


\* C28: in every state of a hook, status 'success' comes with error null and
\* a timestamp, and status 'error' with an error; a loading or an error
\* action leaves data and timestamp as they are; and a hook configured with
\* skip = true is left as it is by execute and has no request in flight.
SkipConfigs == {config \in Configs : config.skip}

C28_ReducerInvariants ==
    \A h \in Hooks :
        /\ hooks[h].status = "success" =>
               hooks[h].error = Null /\ hooks[h].timestamp # Null
        /\ hooks[h].status = "error" => hooks[h].error # Null
        /\ \A action \in {Loading} \cup {Failure(error) : error \in Aborted} :
               \A now \in Times :
                   \A after \in {reducer(hooks[h], action, now)} :
                       /\ after.data = hooks[h].data
                       /\ after.timestamp = hooks[h].timestamp
        /\ hooks[h].config.skip =>
               \A override \in Overrides : \A aborted \in Aborted :
                   execute(responseCache, hooks[h], override, aborted) = hooks[h]
        /\ (hooks[h].mounted /\ hooks[h].config.skip) => ~hooks[h].pending

\* C28: a hook that shows data with a timestamp is loading or in error.
C28_Witness ==
    \E h \in Hooks :
        /\ hooks[h].mounted
        /\ hooks[h].status \in {"loading", "error"}
        /\ hooks[h].data \in Values
        /\ hooks[h].timestamp = "later"


\* list is s with some of its entries left out, the others in their order.
RECURSIVE IsSubSeq(_, _)
IsSubSeq(list, s) ==
    IF list = <<>> THEN TRUE
    ELSE IF s = <<>> THEN FALSE
    ELSE IF Head(list) = Head(s) THEN IsSubSeq(Tail(list), Tail(s))
    ELSE IsSubSeq(list, Tail(s))

\* C29: the toast list never holds more than maxToasts entries and is
\* ordered newest first: a show (the step that sets a timeout) puts its toast
\* at the head, in front of the toasts there were, in their order, without
\* the last (oldest) one when the list was full; every other step only takes
\* entries out.
C29_AtMostMaxToastsNewestFirst ==
    [][/\ Len(toasts') <= maxToasts
       /\ \A timeout \in scheduled' \ scheduled :
              /\ toasts'[1].id = timeout.id
              /\ Tail(toasts') = SubSeq(toasts, 1, Min(Len(toasts), maxToasts - 1))
       /\ scheduled' \subseteq scheduled => IsSubSeq(toasts', toasts)]_vars

\* C29: the list is full and a toast shown before those in it has been
\* dropped: its timer is still registered.
C29_Witness ==
    /\ Len(toasts) = maxToasts
    /\ \E id \in ToastIds :
           /\ timers[id] # NoHandle
           /\ \A i \in 1 .. Len(toasts) : toasts[i].id # id

\* C30: every toast in the list has a pending timeout registered under its
\* id in the timer map; dismiss(id) leaves no timeout of id pending, clear()
\* and the unmount leave none pending at all, and after them the list and
\* the timer map are empty.
C30_TimersRegisteredAndCancelled ==
    [][/\ \A i \in 1 .. Len(toasts') :
              /\ timers'[toasts'[i].id] # NoHandle
              /\ Timeout(timers'[toasts'[i].id], toasts'[i].id) \in scheduled'
       /\ \A id \in ToastIds :
              Dismiss(id) => \A timeout \in scheduled' : timeout.id # id
       /\ (Clear \/ UnmountProvider) =>
              /\ toasts' = <<>>
              /\ timers' = NoTimers
              /\ scheduled' = {}]_vars

\* C30: a timeout is pending after clear() or the unmount emptied the list
\* and the timer map.
C30_Witness ==
    /\ toasts = <<>>
    /\ timers = NoTimers
    /\ scheduled # {}

\* C30: with timers that fire, a toast that is in the list is removed.
C30_EventuallyRemoved ==
    \A id \in ToastIds :
        (\E i \in 1 .. Len(toasts) : toasts[i].id = id)
            ~> (\A i \in 1 .. Len(toasts) : toasts[i].id # id)

====
